---- MODULE Spec2Model ----
(***************************************************************************)
(* HTTPServerClient (Smooth): the per-connection protocol engine.          *)
(*                                                                         *)
(* The engine's fields are the variables operations .. timeout; closed is  *)
(* the socket's state. Handlers are operators from the engine's state (a   *)
(* record) to the set of states they can return in, one for each way the   *)
(* producers and the application can answer; such a state also lists what  *)
(* the handler did (get_data calls, frames sent, replies, callbacks).      *)
(* History variables record, for the current connection, the reply calls   *)
(* made and the order in which producers were started.                     *)
(***************************************************************************)
EXTENDS Integers, Sequences, FiniteSets, TLC

\* ---------------------------------------------------------------- bounds
\* Producers created on one connection (application replies, 405s, Pongs).
MaxProducers == 3
\* The same, where only the application replies (SpecOrder).
MaxOrdered == 4
\* Producers created on one connection where requests come in full
\* (SpecRequest).
MaxAnswered == 2
\* Characters in the query of a request target (SpecQuery).
MaxQuery == 4
\* get_data calls a producer answers: after call number MaxCalls - 1 it
\* ends (EndOfData or Error).
MaxCalls == 3
\* reply/reply_error calls the Request Context or the WebSocket Frame
\* Handler makes during one invocation.
MaxCallbacks == 1

\* ------------------------------------------------------------- constants
\* DefaultKeepAlive, in seconds.
DefaultKeepAlive == 5

\* Receive timeouts a socket can be configured with, in milliseconds.
Timeouts == {0, 500, 30000}

CONNECTION == "Connection"
KEEP_ALIVE == "Keep-Alive"

HasMoreData == "HasMoreData"
LastData == "LastData"
EndOfData == "EndOfData"
Error == "Error"
ResponseStatus == {HasMoreData, LastData, EndOfData, Error}

\* WebsocketProtocol::OpCode; control opcodes are >= Close.
OpContinuation == 0
OpText == 1
OpBinary == 2
OpClose == 8
OpPing == 9
OpPong == 10
OpCodes == {OpContinuation, OpText, OpBinary, OpClose, OpPing, OpPong}

Method_Not_Allowed == 405
OK == 200

\* ------------------------------------------------ response producers
\* A response operation: its identity, the number of get_data calls made
\* on it, its headers, its response code and (WSResponse) its opcode.
NewOp(id, code, ws_op) ==
    [id |-> id, n |-> 0, headers |-> {}, code |-> code, ws_op |-> ws_op]

\* current_operation when no operation is streaming (empty unique_ptr).
NoOp == NewOp(0, 0, 0)

\* IResponseOperation::add_header / set_header on the header set.
add_header(op, key, value) ==
    [op EXCEPT !.headers = @ \cup {<<key, value>>}]

set_header(op, key, value) ==
    [op EXCEPT !.headers = {h \in @ : h[1] # key} \cup {<<key, value>>}]

\* What call number k of get_data on a producer can return.
get_data(op, k) ==
    IF k < MaxCalls THEN ResponseStatus ELSE {EndOfData, Error}

\* A conversion that keeps the count of milliseconds.
duration_cast_none(ms) == ms

\* duration_cast<seconds>(milliseconds): truncation.
duration_cast_seconds(ms) == ms \div 1000

\* "timeout=" + std::to_string(count)
KeepAliveValue(secs) == "timeout=" \o ToString(secs)

\* ------------------------------------------------------------- state
VARIABLES
    operations,         \* std::deque of queued response operations
    current_operation,  \* the operation being streamed, or NoOp
    mode,               \* "HTTP" or "Websocket"
    ws_server,          \* TRUE when a WebSocket Frame Handler is attached
    request_headers,    \* headers of the request being handled
    requested_url,      \* decoded path of the request being handled
    request_parameters, \* decoded query parameters
    mime,               \* MIME parser state: "reset" or "parsing"
    timeout,            \* socket receive timeout, milliseconds
    closed,             \* close() has been called on this connection
    closed_by,          \* history: what called close() first, and the
                        \* number of producers made by then
    calls,              \* history: the reply / reply_error calls, in order
    started,            \* history: the producers started, in order
    inflight,           \* request whose packets the transport is delivering
    tx_buffer           \* frames in the transmit buffer whose
                        \* TransmitBufferEmptyEvent is still to come
                        \* (counted under SpecPump only)

vars == <<operations, current_operation, mode, ws_server, request_headers,
          requested_url, request_parameters, mime, timeout, closed, closed_by,
          calls, started, inflight, tx_buffer>>

\* The state as one record, so that handlers compose. gets, tx, replies and
\* handler collect what the handler does: the get_data calls, the frames
\* put into the transmit buffer, the reply calls and the invocations of the
\* Request Context or WebSocket Frame Handler.
Cur ==
    [operations |-> operations, current_operation |-> current_operation,
     mode |-> mode, ws_server |-> ws_server,
     request_headers |-> request_headers, requested_url |-> requested_url,
     request_parameters |-> request_parameters, mime |-> mime,
     timeout |-> timeout, closed |-> closed, closed_by |-> closed_by,
     calls |-> calls, started |-> started,
     gets |-> <<>>, tx |-> <<>>, replies |-> <<>>, handler |-> <<>>]

Set(s) ==
    /\ operations' = s.operations
    /\ current_operation' = s.current_operation
    /\ mode' = s.mode
    /\ ws_server' = s.ws_server
    /\ request_headers' = s.request_headers
    /\ requested_url' = s.requested_url
    /\ request_parameters' = s.request_parameters
    /\ mime' = s.mime
    /\ timeout' = s.timeout
    /\ closed' = s.closed
    /\ closed_by' = s.closed_by
    /\ calls' = s.calls
    /\ started' = s.started

\* The identity of the next producer made on this connection.
NextId(s) == Len(s.calls) + 1

\* ------------------------------------------------------------ the pump
NotClosed == [cause |-> "none", ncalls |-> 0]

\* ServerClient::close(): stops the socket. The engine's queue is untouched.
Close(s, cause) ==
    [s EXCEPT !.closed = TRUE,
              !.closed_by = IF @.cause = "none"
                            THEN [cause |-> cause, ncalls |-> Len(s.calls)]
                            ELSE @]

\* The frame put into the transmit buffer: hdr is TRUE for a frame with
\* status line and headers, FALSE for a body-only frame; chunk is the number
\* of the get_data call whose data it carries.
Frame(op, k, hdr) ==
    [op |-> op.id, chunk |-> k, hdr |-> hdr,
     code |-> IF hdr THEN op.code ELSE 0,
     headers |-> IF hdr THEN op.headers ELSE {}]

\* A get_data call: the producer, the number of the call, the size asked
\* for and the status returned.
GetRec(op, k, res) ==
    [op |-> op.id, n |-> k, max_amount |-> "content_chunk_size", res |-> res]

\* send_first_part that does not go on to the next producer when the one it
\* started ends at once.
send_first_part_once(s) ==
    IF s.operations = <<>> THEN {s}
    ELSE LET op == [Head(s.operations) EXCEPT !.n = 1]
             s1(res) == [s EXCEPT !.operations = Tail(@),
                                  !.current_operation = op,
                                  !.started = Append(@, op.id),
                                  !.gets = Append(@, GetRec(op, 1, res))]
             s2(res) == [s1(res) EXCEPT
                           !.tx = Append(@, Frame(op, 1, s.mode = "HTTP"))]
             After(res) ==
                 IF res = Error THEN {Close(s1(res), "error")}
                 ELSE IF res = EndOfData
                      THEN {[s2(res) EXCEPT !.current_operation = NoOp]}
                      ELSE {s2(res)}
         IN  UNION {After(res) : res \in get_data(op, 1)}

\* send_first_part that, when the producer it started ends at once, discards
\* the producer behind it before going on.
RECURSIVE send_first_part_skips(_)
send_first_part_skips(s) ==
    IF s.operations = <<>> THEN {s}
    ELSE
        LET op == [Head(s.operations) EXCEPT !.n = 1]
            s1(res) == [s EXCEPT !.operations = Tail(@),
                                 !.current_operation = op,
                                 !.started = Append(@, op.id),
                                 !.gets = Append(@, GetRec(op, 1, res))]
            s2(res) == [s1(res) EXCEPT !.tx = Append(@, Frame(op, 1, s.mode = "HTTP"))]
            After(res) ==
                IF res = Error THEN {Close(s1(res), "error")}
                ELSE IF res = EndOfData
                THEN send_first_part_skips(
                         [s2(res) EXCEPT !.current_operation = NoOp,
                                         !.operations = IF @ = <<>> THEN @ ELSE Tail(@)])
                ELSE {s2(res)}
        IN  UNION {After(res) : res \in get_data(op, 1)}

RECURSIVE send_first_part(_)
send_first_part(s) ==
    IF s.operations = <<>> THEN {s}
    ELSE
        LET op == [Head(s.operations) EXCEPT !.n = 1]
            s1(res) == [s EXCEPT !.operations = Tail(@),
                                 !.current_operation = op,
                                 !.started = Append(@, op.id),
                                 !.gets = Append(@, GetRec(op, 1, res))]
            s2(res) == [s1(res) EXCEPT !.tx = Append(@, Frame(op, 1, s.mode = "HTTP"))]
            After(res) ==
                IF res = Error THEN {Close(s1(res), "error")}
                ELSE IF res = EndOfData
                THEN send_first_part([s2(res) EXCEPT !.current_operation = NoOp])
                ELSE {s2(res)}
        IN  UNION {After(res) : res \in get_data(op, 1)}

\* The event handler retiring an ended producer without starting the next.
transmit_buffer_empty_retires_only(s) ==
    IF s.current_operation # NoOp
    THEN
        LET k  == s.current_operation.n + 1
            op == [s.current_operation EXCEPT !.n = k]
            s1(res) == [s EXCEPT !.current_operation = op,
                                 !.gets = Append(@, GetRec(op, k, res))]
            After(res) ==
                CASE res = Error -> {Close(s1(res), "error")}
                  [] res = EndOfData -> {[s1(res) EXCEPT !.current_operation = NoOp]}
                  [] OTHER -> {[s1(res) EXCEPT !.tx = Append(@, Frame(op, k, FALSE))]}
        IN  UNION {After(res) : res \in get_data(op, k)}
    ELSE send_first_part(s)

\* The event handler framing every chunk as send_first_part frames the first.
transmit_buffer_empty_framed(s) ==
    IF s.current_operation # NoOp
    THEN
        LET k  == s.current_operation.n + 1
            op == [s.current_operation EXCEPT !.n = k]
            s1(res) == [s EXCEPT !.current_operation = op,
                                 !.gets = Append(@, GetRec(op, k, res))]
            After(res) ==
                CASE res = Error -> {Close(s1(res), "error")}
                  [] res = EndOfData ->
                        send_first_part([s1(res) EXCEPT !.current_operation = NoOp])
                  [] OTHER -> {[s1(res) EXCEPT
                                  !.tx = Append(@, Frame(op, k, s.mode = "HTTP"))]}
        IN  UNION {After(res) : res \in get_data(op, k)}
    ELSE send_first_part(s)

\* event(TransmitBufferEmptyEvent)
transmit_buffer_empty(s) ==
    IF s.current_operation # NoOp
    THEN
        LET k  == s.current_operation.n + 1
            op == [s.current_operation EXCEPT !.n = k]
            s1(res) == [s EXCEPT !.current_operation = op,
                                 !.gets = Append(@, GetRec(op, k, res))]
            After(res) ==
                CASE res = Error -> {Close(s1(res), "error")}
                  [] res = EndOfData ->
                        send_first_part([s1(res) EXCEPT !.current_operation = NoOp])
                  [] OTHER -> {[s1(res) EXCEPT !.tx = Append(@, Frame(op, k, FALSE))]}
        IN  UNION {After(res) : res \in get_data(op, k)}
    ELSE send_first_part(s)

\* History of a reply / reply_error call: the opcode of the response, whether
\* an operation was streaming and how many producers had been started when
\* it was made.
CallRec(s, kind, response, place_first) ==
    [kind |-> kind, place_first |-> place_first, ws_op |-> response.ws_op,
     busy |-> s.current_operation # NoOp, nstarted |-> Len(s.started)]

\* The same call as the handler's outcome lists it: the producer as given
\* and as enqueued.
ReplyRec(s, kind, given, response, place_first) ==
    [kind |-> kind, place_first |-> place_first, given |-> given,
     response |-> response, mode |-> s.mode, timeout |-> s.timeout,
     busy |-> s.current_operation # NoOp]

\* reply that enqueues at the back whatever place_first says.
reply_appends(s, response, place_first) ==
    LET secs == duration_cast_seconds(s.timeout)
        r1 == IF s.mode = "HTTP" /\ secs > 0
              THEN set_header(add_header(response, CONNECTION, "keep-alive"),
                              KEEP_ALIVE, KeepAliveValue(secs))
              ELSE response
        s1 == [s EXCEPT
                 !.operations = Append(@, r1),
                 !.calls = Append(@, CallRec(s, "reply", response, place_first)),
                 !.replies = Append(@, ReplyRec(s, "reply", response, r1, place_first))]
    IN  IF s1.current_operation = NoOp THEN send_first_part(s1) ELSE {s1}

\* reply that starts the next queued producer without looking at
\* current_operation.
reply_always_sends(s, response, place_first) ==
    LET secs == duration_cast_seconds(s.timeout)
        r1 == IF s.mode = "HTTP" /\ secs > 0
              THEN set_header(add_header(response, CONNECTION, "keep-alive"),
                              KEEP_ALIVE, KeepAliveValue(secs))
              ELSE response
        s1 == [s EXCEPT
                 !.operations = IF place_first THEN <<r1>> \o @ ELSE Append(@, r1),
                 !.calls = Append(@, CallRec(s, "reply", response, place_first)),
                 !.replies = Append(@, ReplyRec(s, "reply", response, r1, place_first))]
    IN  send_first_part(s1)

\* reply that enqueues and leaves the pump alone.
reply_never_sends(s, response, place_first) ==
    LET secs == duration_cast_seconds(s.timeout)
        r1 == IF s.mode = "HTTP" /\ secs > 0
              THEN set_header(add_header(response, CONNECTION, "keep-alive"),
                              KEEP_ALIVE, KeepAliveValue(secs))
              ELSE response
    IN  {[s EXCEPT
            !.operations = IF place_first THEN <<r1>> \o @ ELSE Append(@, r1),
            !.calls = Append(@, CallRec(s, "reply", response, place_first)),
            !.replies = Append(@, ReplyRec(s, "reply", response, r1, place_first))]}

\* reply(response, place_first)
reply(s, response, place_first) ==
    LET secs == duration_cast_seconds(s.timeout)
        r1 == IF s.mode = "HTTP" /\ secs > 0
              THEN set_header(add_header(response, CONNECTION, "keep-alive"),
                              KEEP_ALIVE, KeepAliveValue(secs))
              ELSE response
        s1 == [s EXCEPT
                 !.operations = IF place_first THEN <<r1>> \o @ ELSE Append(@, r1),
                 !.calls = Append(@, CallRec(s, "reply", response, place_first)),
                 !.replies = Append(@, ReplyRec(s, "reply", response, r1, place_first))]
    IN  IF s1.current_operation = NoOp THEN send_first_part(s1) ELSE {s1}

\* reply_error that keeps the queue and puts the error response behind it.
reply_error_keeps_queue(s, response) ==
    LET r1 == add_header(response, CONNECTION, "close")
        s1 == [s EXCEPT
                 !.operations = Append(@, r1),
                 !.calls = Append(@, CallRec(s, "reply_error", response, FALSE)),
                 !.replies = Append(@, ReplyRec(s, "reply_error", response, r1, FALSE))]
    IN  IF s1.current_operation = NoOp THEN send_first_part(s1) ELSE {s1}

\* reply_error(response)
reply_error(s, response) ==
    LET r1 == add_header(response, CONNECTION, "close")
        s1 == [s EXCEPT
                 !.operations = <<r1>>,
                 !.calls = Append(@, CallRec(s, "reply_error", response, FALSE)),
                 !.replies = Append(@, ReplyRec(s, "reply_error", response, r1, FALSE))]
    IN  IF s1.current_operation = NoOp THEN send_first_part(s1) ELSE {s1}

\* ------------------------------------------------- URL / query decoding
\* Strings that are parsed are sequences of one-character strings.
NoParams == [k \in {} |-> <<>>]

IsHex(c) == c \in {"0", "2", "3", "6", "D"}

\* The character a two-digit escape stands for.
Unhex(a, b) ==
    CASE a = "2" /\ b = "0" -> " "
      [] a = "2" /\ b = "6" -> "&"
      [] a = "3" /\ b = "D" -> "="
      [] OTHER -> "*"

\* URLEncoding::decode: percent-decoding, '+' to space; fails on an escape
\* that is not '%' and two hex digits, leaving the rest undecoded.
RECURSIVE Decode(_)
Decode(str) ==
    IF str = <<>> THEN [ok |-> TRUE, out |-> <<>>]
    ELSE IF Head(str) = "%"
    THEN IF Len(str) >= 3 /\ IsHex(str[2]) /\ IsHex(str[3])
         THEN LET r == Decode(SubSeq(str, 4, Len(str)))
              IN  [ok |-> r.ok, out |-> <<Unhex(str[2], str[3])>> \o r.out]
         ELSE [ok |-> FALSE, out |-> str]
    ELSE LET r == Decode(Tail(str))
         IN  [ok |-> r.ok,
              out |-> <<IF Head(str) = "+" THEN " " ELSE Head(str)>> \o r.out]

\* std::find(begin + from - 1, end, c): the index found, or Len(str) + 1.
RECURSIVE Find(_, _, _)
Find(str, from, c) ==
    IF from > Len(str) THEN Len(str) + 1
    ELSE IF str[from] = c THEN from
    ELSE Find(str, from + 1, c)

\* The while loop of separate_request_parameters, from position pos.
RECURSIVE ParsePairs(_, _, _)
ParsePairs(url, pos, params) ==
    IF pos > Len(url) THEN params
    ELSE
        LET equal_sign == Find(url, pos, "=")
        IN  IF equal_sign > Len(url) THEN params
            ELSE
                LET ampersand == Find(url, equal_sign, "&")
                    key   == SubSeq(url, pos, equal_sign - 1)
                    value == SubSeq(url, equal_sign + 1, ampersand - 1)
                    next  == IF ampersand <= Len(url) THEN ampersand + 1 ELSE ampersand
                IN  ParsePairs(url, next, (key :> value) @@ params)

separate_request_parameters(url) ==
    LET pos == Find(url, 1, "?")
    IN  IF pos > Len(url) THEN [url |-> url, params |-> NoParams]
        ELSE
            LET decoded == SubSeq(url, 1, pos - 1)
                             \o Decode(SubSeq(url, pos, Len(url))).out
                pos2 == Find(decoded, 1, "?")
            IN  [url |-> SubSeq(decoded, 1, pos2 - 1),
                 params |-> ParsePairs(decoded, pos + 1, NoParams)]

parse_url(raw_url) ==
    LET sep == separate_request_parameters(raw_url)
        dec == Decode(sep.url)
    IN  [res |-> dec.ok, url |-> dec.out, params |-> sep.params]

\* Request targets the transport delivers.
Urls ==
    { <<"/", "a">>,
      <<"/", "a", "?", "k", "=", "v">>,
      <<"/", "%", "2">>,
      <<"/", "?", "%">> }

\* ---------------------------------------------------- method translation
\* Request methods the transport delivers: a supported one, an unsupported
\* one, and a supported one in the wrong case.
Methods == {"GET", "PATCH", "get"}

translate_method(request_method) ==
    CASE request_method = "POST"   -> [res |-> TRUE, method |-> "POST"]
      [] request_method = "GET"    -> [res |-> TRUE, method |-> "GET"]
      [] request_method = "DELETE" -> [res |-> TRUE, method |-> "DELETE"]
      [] request_method = "HEAD"   -> [res |-> TRUE, method |-> "HEAD"]
      [] request_method = "PUT"    -> [res |-> TRUE, method |-> "PUT"]
      [] OTHER                     -> [res |-> FALSE, method |-> "GET"]

\* ------------------------------------------------------------ keep-alive
\* Header sets a request packet carries (names lower-cased by the parser).
PacketHeaders ==
    { {}, {<<"connection", "Keep-Alive">>}, {<<"connection", "close">>} }

\* string_util::icontains(s, "keep-alive")
icontains_keep_alive(s) == s \in {"keep-alive", "Keep-Alive"}

set_keep_alive(s) ==
    IF \E h \in s.request_headers : h[1] = "connection" /\ icontains_keep_alive(h[2])
    THEN [s EXCEPT !.timeout = DefaultKeepAlive * 1000]
    ELSE s

\* ------------------------------------------- calls made by the application
\* What a Request Context or WebSocket Frame Handler can do while it runs:
\* up to n reply / reply_error calls, each with a producer of its own.
OneCallback(s) ==
    LET op == NewOp(NextId(s), OK, OpText)
    IN  UNION {reply(s, op, place_first) : place_first \in BOOLEAN}
          \cup reply_error(s, op)

RECURSIVE RunCallbacks(_, _)
RunCallbacks(s, n) ==
    IF n = 0 \/ NextId(s) > MaxProducers THEN {s}
    ELSE {s} \cup UNION {RunCallbacks(s1, n - 1) : s1 \in OneCallback(s)}

\* context->handle(...): the invocation is recorded with what it receives;
\* the context may feed the MIME parser and may call back into reply.
Handle(s, packet, method, first_packet, last_packet) ==
    LET inv == [method |-> method,
                url |-> s.requested_url, headers |-> s.request_headers,
                parameters |-> s.request_parameters, mime |-> s.mime,
                first |-> first_packet, last |-> last_packet]
        s1(feed) == [s EXCEPT !.handler = Append(@, inv),
                              !.mime = IF feed THEN "parsing" ELSE @]
    IN  UNION {RunCallbacks(s1(feed), MaxCallbacks) : feed \in BOOLEAN}

\* ws_server->data_received(first_part, last_part, is_text, data)
DataReceived(s, frame) ==
    LET inv == [first |-> ~frame.continuation, last |-> ~frame.continued,
                text |-> frame.ws_control_code = OpText]
    IN  RunCallbacks([s EXCEPT !.handler = Append(@, inv)], MaxCallbacks)

\* ---------------------------------------------------------- http_event
\* http_event that goes on whatever parse_url returns.
http_event_ignores_res(s, packet) ==
    LET first_packet == ~packet.continuation
        last_packet  == ~packet.continued
        parsed == parse_url(packet.url)
        s1 == IF first_packet
              THEN [set_keep_alive([s EXCEPT !.request_headers = packet.headers,
                                             !.requested_url = parsed.url,
                                             !.request_parameters = parsed.params])
                       EXCEPT !.mime = "reset"]
              ELSE s
        tm  == translate_method(packet.method)
    IN  IF tm.res
        THEN Handle(s1, packet, tm.method, first_packet, last_packet)
        ELSE reply(s1, NewOp(NextId(s1), Method_Not_Allowed, OpText), FALSE)

http_event(s, packet) ==
    LET first_packet == ~packet.continuation
        last_packet  == ~packet.continued
        parsed == parse_url(packet.url)
        s1 == IF first_packet
              THEN [set_keep_alive([s EXCEPT !.request_headers = packet.headers,
                                             !.requested_url = parsed.url,
                                             !.request_parameters = parsed.params])
                       EXCEPT !.mime = "reset"]
              ELSE s
        res == IF first_packet THEN parsed.res ELSE TRUE
        tm  == translate_method(packet.method)
    IN  IF ~res THEN {s1}
        ELSE IF tm.res
        THEN Handle(s1, packet, tm.method, first_packet, last_packet)
        ELSE reply(s1, NewOp(NextId(s1), Method_Not_Allowed, OpText), FALSE)

\* ----------------------------------------------------- websocket_event
\* websocket_event that puts the Pong at the back of the queue.
websocket_event_pong_last(s, frame) ==
    LET ws_op == frame.ws_control_code
    IN  IF ws_op >= OpClose
        THEN CASE ws_op = OpClose -> {Close(s, "ws_close")}
               [] ws_op = OpPing  -> reply(s, NewOp(NextId(s), 0, OpPong), FALSE)
               [] OTHER -> {s}
        ELSE IF s.ws_server THEN DataReceived(s, frame) ELSE {s}

websocket_event(s, frame) ==
    LET ws_op == frame.ws_control_code
    IN  IF ws_op >= OpClose
        THEN CASE ws_op = OpClose -> {Close(s, "ws_close")}
               [] ws_op = OpPing  -> reply(s, NewOp(NextId(s), 0, OpPong), TRUE)
               [] OTHER -> {s}
        ELSE IF s.ws_server THEN DataReceived(s, frame) ELSE {s}

\* reset_client that clears the queue only.
reset_client_queue_only(s) ==
    [s EXCEPT !.operations = <<>>]

\* reset_client()
reset_client(s) ==
    [s EXCEPT !.operations = <<>>, !.current_operation = NoOp,
              !.mode = "HTTP", !.ws_server = FALSE]

\* connected()
connected(s) == [s EXCEPT !.timeout = DefaultKeepAlive * 1000]

\* upgrade_to_websocket(): the mode mutator, attaching the frame handler.
upgrade_to_websocket(s) == [s EXCEPT !.mode = "Websocket", !.ws_server = TRUE]

\* ----------------------------------------------------------- behaviour
\* The request the transport is in the middle of delivering: its method,
\* whether its target was decoded, the number of 405 responses made for it
\* so far, what its first packet established (target, headers, parameters),
\* and whether that first packet came before the last reset_client.
NoReq ==
    [active |-> FALSE, method |-> "", res |-> TRUE, n405 |-> 0,
     url |-> <<>>, headers |-> {}, params |-> NoParams, stale |-> FALSE]

Init ==
    /\ operations = <<>>
    /\ current_operation = NoOp
    /\ mode = "HTTP"
    /\ ws_server = FALSE
    /\ request_headers = {}
    /\ requested_url = <<>>
    /\ request_parameters = NoParams
    /\ mime = "reset"
    /\ timeout \in Timeouts
    /\ closed = FALSE
    /\ closed_by = NotClosed
    /\ calls = <<>>
    /\ started = <<>>
    /\ inflight = NoReq
    /\ tx_buffer = 0

\* A handler's outcome is kept when the producers it made fit the bound.
Fits(s) == Len(s.calls) <= MaxProducers

\* The 405 responses among the replies a handler made.
N405(s) == Len(SelectSeq(s.replies, LAMBDA r : r.response.code = Method_Not_Allowed))

\* The states event(DataAvailableEvent) can return in, in HTTP mode, given
\* one packet of a request.
HttpOutcomesUpTo(max, packet) ==
    IF mode = "HTTP"
    THEN {s \in http_event(Cur, packet) : Len(s.calls) <= max}
    ELSE {}

HttpOutcomes(packet) == HttpOutcomesUpTo(MaxProducers, packet)

HttpPacketUpTo(max, packet) ==
    \E s \in HttpOutcomesUpTo(max, packet) :
       /\ Set(s)
       /\ inflight' =
             IF ~packet.continued THEN NoReq
             ELSE IF packet.continuation
             THEN [inflight EXCEPT !.n405 = @ + N405(s)]
             ELSE LET parsed == parse_url(packet.url)
                  IN  [active |-> TRUE, method |-> packet.method,
                       res |-> parsed.res, n405 |-> N405(s),
                       url |-> parsed.url, headers |-> packet.headers,
                       params |-> parsed.params, stale |-> FALSE]
       /\ UNCHANGED tx_buffer

\* The first packets of a new request.
FirstPackets(methods, urls, headerSets, more) ==
    IF inflight.active THEN {}
    ELSE [method : methods, url : urls, headers : headerSets,
          continuation : {FALSE}, continued : more]

\* The later packets of the request being received; the protocol parser
\* gives them the method of the request.
ContinuationPackets ==
    IF inflight.active
    THEN [method : {inflight.method}, url : {<<>>}, headers : {{}},
          continuation : {TRUE}, continued : BOOLEAN]
    ELSE {}

\* The frames received in WebSocket mode, and the states
\* event(DataAvailableEvent) can return in, given one.
Frames == [ws_control_code : OpCodes, continuation : BOOLEAN, continued : BOOLEAN]

WsOutcomes(frame) ==
    IF mode = "Websocket" THEN {s \in websocket_event(Cur, frame) : Fits(s)} ELSE {}

WebsocketFrame ==
    /\ \E frame \in Frames : \E s \in WsOutcomes(frame) : Set(s)
    /\ UNCHANGED <<inflight, tx_buffer>>

\* event(TransmitBufferEmptyEvent); a producer is asked at most MaxCalls times.
\* Spec, SpecOrder and SpecRequest let the event arrive at any time.
TbeOutcomes ==
    IF current_operation.n < MaxCalls THEN transmit_buffer_empty(Cur) ELSE {}

TransmitBufferEmpty ==
    /\ \E s \in TbeOutcomes : Set(s)
    /\ UNCHANGED <<inflight, tx_buffer>>

\* reply called by the application outside of a handler invocation.
ReplyOutcomesUpTo(max, place_first) ==
    IF NextId(Cur) <= max
    THEN reply(Cur, NewOp(NextId(Cur), OK, OpText), place_first)
    ELSE {}

ReplyOutcomes(place_first) == ReplyOutcomesUpTo(MaxProducers, place_first)

Reply ==
    /\ \E place_first \in BOOLEAN : \E s \in ReplyOutcomes(place_first) : Set(s)
    /\ UNCHANGED <<inflight, tx_buffer>>

\* reply_error called by the application outside of a handler invocation.
ReplyErrorOutcomesUpTo(max) ==
    IF NextId(Cur) <= max
    THEN reply_error(Cur, NewOp(NextId(Cur), OK, OpText))
    ELSE {}

ReplyErrorOutcomes == ReplyErrorOutcomesUpTo(MaxProducers)

ReplyError ==
    /\ \E s \in ReplyErrorOutcomes : Set(s)
    /\ UNCHANGED <<inflight, tx_buffer>>

\* The connection has ended and the client object is recycled for the next
\* one: reset_client(), a fresh socket, and an empty history. reset_client
\* does not touch the packet parser: a request it was in the middle of is
\* either forgotten by the transport or goes on (its responses are gone
\* with the old connection).
ResetClient ==
    /\ \E t \in Timeouts :
          Set([reset_client(Cur) EXCEPT !.timeout = t, !.closed = FALSE,
                                        !.closed_by = NotClosed, !.calls = <<>>,
                                        !.started = <<>>])
    /\ \/ inflight' = NoReq
       \/ /\ inflight.active
          /\ inflight' = [inflight EXCEPT !.stale = TRUE, !.n405 = 0]
    /\ UNCHANGED tx_buffer

\* event(ConnectionStatusEvent) reporting the connection: connected().
Connected ==
    /\ calls = <<>> /\ ~closed
    /\ Set(connected(Cur))
    /\ UNCHANGED <<inflight, tx_buffer>>

\* The application upgrades the connection to WebSocket.
UpgradeToWebsocket ==
    /\ mode = "HTTP"
    /\ Set(upgrade_to_websocket(Cur))
    /\ UNCHANGED <<inflight, tx_buffer>>

\* Requests as the pump sees them: whole requests with one target.
PumpPackets == FirstPackets({"GET", "PATCH"}, {<<"/", "a">>}, {{}}, {FALSE})

HttpRequest == \E packet \in PumpPackets : HttpPacketUpTo(MaxProducers, packet)

Next ==
    \/ HttpRequest
    \/ WebsocketFrame
    \/ TransmitBufferEmpty
    \/ Reply
    \/ ReplyError
    \/ ResetClient
    \/ Connected
    \/ UpgradeToWebsocket

Spec == Init /\ [][Next]_vars

\* The queue and the pump alone, with one producer more: the application
\* replies and the transport empties its buffer, in either mode.
OrderReply ==
    /\ \E place_first \in BOOLEAN :
          \E s \in ReplyOutcomesUpTo(MaxOrdered, place_first) : Set(s)
    /\ UNCHANGED <<inflight, tx_buffer>>

OrderReplyError ==
    /\ \E s \in ReplyErrorOutcomesUpTo(MaxOrdered) : Set(s)
    /\ UNCHANGED <<inflight, tx_buffer>>

NextOrder ==
    \/ OrderReply
    \/ OrderReplyError
    \/ TransmitBufferEmpty
    \/ ResetClient
    \/ Connected
    \/ UpgradeToWebsocket

SpecOrder == Init /\ [][NextOrder]_vars

\* Requests in full: every method, target and header set, in one or more
\* packets.
AllPackets == FirstPackets(Methods, Urls, PacketHeaders, BOOLEAN)

RequestOutcomes(packet) == HttpOutcomesUpTo(MaxAnswered, packet)

RequestFirst == \E packet \in AllPackets : HttpPacketUpTo(MaxAnswered, packet)

RequestContinuation ==
    \E packet \in ContinuationPackets : HttpPacketUpTo(MaxAnswered, packet)

NextRequest ==
    \/ RequestFirst
    \/ RequestContinuation
    \/ TransmitBufferEmpty
    \/ ResetClient
    \/ Connected

SpecRequest == Init /\ [][NextRequest]_vars

\* The URL / query decoder alone: separate_request_parameters applied to
\* requested_url, which starts as any target with a query of up to MaxQuery
\* characters, or one of a few with escapes.
QueryChars == {"k", "v", "=", "&", "+"}

RECURSIVE Strings(_)
Strings(n) ==
    IF n = 0 THEN {<<>>}
    ELSE LET shorter == Strings(n - 1)
         IN  shorter \cup {Append(q, c) : q \in {r \in shorter : Len(r) = n - 1},
                                          c \in QueryChars}

EscapedQueries ==
    { <<"k", "%", "3", "D", "v">>,
      <<"k", "=", "v", "%", "2", "6", "k">>,
      <<"k", "=", "%", "2", "0">> }

Targets ==
    {<<"/", "k">>}
      \cup {<<"/", "k", "?">> \o q : q \in Strings(MaxQuery) \cup EscapedQueries}

InitQuery ==
    /\ operations = <<>>
    /\ current_operation = NoOp
    /\ mode = "HTTP"
    /\ ws_server = FALSE
    /\ request_headers = {}
    /\ requested_url \in Targets
    /\ request_parameters = NoParams
    /\ mime = "reset"
    /\ timeout = 0
    /\ closed = FALSE
    /\ closed_by = NotClosed
    /\ calls = <<>>
    /\ started = <<>>
    /\ inflight = NoReq
    /\ tx_buffer = 0

SeparateRequestParameters ==
    LET sep == separate_request_parameters(requested_url)
    IN  /\ requested_url' = sep.url
        /\ request_parameters' = sep.params
        /\ UNCHANGED <<operations, current_operation, mode, ws_server,
                       request_headers, mime, timeout, closed, closed_by,
                       calls, started, inflight, tx_buffer>>

NextQuery == SeparateRequestParameters

SpecQuery == InitQuery /\ [][NextQuery]_vars

\* The send pump together with the transport's side of it: a
\* TransmitBufferEmptyEvent is delivered for every frame put into the
\* transmit buffer and for nothing else, no producer reports Error and every
\* producer ends within MaxCalls calls. The application replies and the peer
\* pings, MaxPumped producers in all, in either mode; there is no Close
\* frame, no reply_error and no reset_client.
MaxPumped == 4

NoError(s) == \A i \in 1..Len(s.gets) : s.gets[i].res # Error

PumpReplyOutcomes(place_first) ==
    {s \in ReplyOutcomesUpTo(MaxPumped, place_first) : NoError(s)}

PumpReply ==
    /\ \E place_first \in BOOLEAN : \E s \in PumpReplyOutcomes(place_first) :
          Set(s) /\ tx_buffer' = tx_buffer + Len(s.tx)
    /\ UNCHANGED inflight

PingFrames == {frame \in Frames : frame.ws_control_code = OpPing}

PumpPingOutcomes(frame) ==
    IF mode = "Websocket"
    THEN {s \in websocket_event(Cur, frame) : Len(s.calls) <= MaxPumped /\ NoError(s)}
    ELSE {}

PumpPing ==
    /\ \E frame \in PingFrames : \E s \in PumpPingOutcomes(frame) :
          Set(s) /\ tx_buffer' = tx_buffer + Len(s.tx)
    /\ UNCHANGED inflight

PumpTbeOutcomes ==
    IF tx_buffer > 0 THEN {s \in TbeOutcomes : NoError(s)} ELSE {}

PumpTransmitBufferEmpty ==
    /\ \E s \in PumpTbeOutcomes :
          Set(s) /\ tx_buffer' = tx_buffer - 1 + Len(s.tx)
    /\ UNCHANGED inflight

NextPump ==
    \/ PumpReply
    \/ PumpPing
    \/ PumpTransmitBufferEmpty
    \/ UpgradeToWebsocket

\* The transport delivers the event of every frame it has sent.
SpecPump == Init /\ [][NextPump]_vars /\ WF_vars(PumpTransmitBufferEmpty)

\* ------------------------------------------------ what handlers can do
\* Every state a handler of the engine can return in from the current
\* state, for the packets of Spec; reset_client is not among them: it ends
\* the connection.
PacketOutcomes == UNION {HttpOutcomes(packet) : packet \in PumpPackets}

FrameOutcomes == UNION {WsOutcomes(frame) : frame \in Frames}

AppOutcomes ==
    ReplyErrorOutcomes \cup UNION {ReplyOutcomes(place_first) : place_first \in BOOLEAN}

AnyOutcome == PacketOutcomes \cup FrameOutcomes \cup TbeOutcomes \cup AppOutcomes

Range(seq) == {seq[i] : i \in 1..Len(seq)}

Ids(ops) == [i \in 1..Len(ops) |-> ops[i].id]

\* The position at which producer id was started (0: not started).
Pos(id) ==
    IF id \in Range(started)
    THEN CHOOSE i \in 1..Len(started) : started[i] = id
    ELSE 0

\* Producer b is started only after producer a has been.
StartedBefore(a, b) == Pos(b) # 0 => (Pos(a) # 0 /\ Pos(a) < Pos(b))

\* Calls i, i+1, i+2 are reply(P1,false), reply(P2,false), reply(P3,true).
Triple(i) ==
    /\ i + 2 <= Len(calls)
    /\ \A k \in i..(i + 2) : calls[k].kind = "reply"
    /\ ~calls[i].place_first
    /\ ~calls[i + 1].place_first
    /\ calls[i + 2].place_first

\* Triple(i), made while one operation was streaming throughout.
BusyTriple(i) ==
    /\ Triple(i)
    /\ calls[i].busy
    /\ calls[i + 2].nstarted = calls[i].nstarted

\* C1 as stated: after reply(P1,false), reply(P2,false), reply(P3,true), in
\* any state of the connection, the producers are started in the order P3,
\* P1, P2.
C1_AnyState ==
    \A i \in 1..Len(calls) :
        Triple(i) => StartedBefore(i + 2, i) /\ StartedBefore(i, i + 1)

\* C1 amended: when the three calls are made while an operation is streaming
\* and no producer is started between the first and the third, the producers
\* are started in the order P3, P1, P2.
C1_QueueOrder ==
    \A i \in 1..Len(calls) :
        BusyTriple(i) => StartedBefore(i + 2, i) /\ StartedBefore(i, i + 1)

C1_Witness ==
    \E i \in 1..Len(calls) :
        BusyTriple(i) /\ 0 < Pos(i + 2) /\ Pos(i + 2) < Pos(i) /\ Pos(i) < Pos(i + 1)

\* C2: while a producer is the current operation, a handler replaces it
\* only when it has returned EndOfData, and until then no other producer is
\* asked for data and no frame of another producer is put into the transmit
\* buffer, whichever handler runs.
C2_NoPreemption ==
    current_operation # NoOp =>
        \A s \in AnyOutcome :
            LET cur   == current_operation.id
                ended == /\ s.gets # <<>>
                         /\ s.gets[1].op = cur
                         /\ s.gets[1].res = EndOfData
            IN  /\ s.current_operation.id # cur => ended
                /\ \A i \in 1..Len(s.gets) : s.gets[i].op # cur => ended
                /\ \A i \in 1..Len(s.tx) : s.tx[i].op # cur => ended
                /\ \A i \in 2..Len(s.gets) : s.gets[i].op # cur

\* A producer is streaming with two more queued, and a handler leaves it so.
C2_Witness ==
    /\ current_operation # NoOp
    /\ Len(operations) >= 2
    /\ \E s \in TbeOutcomes :
          /\ s.current_operation.id = current_operation.id
          /\ s.operations = operations
          /\ Len(s.tx) = 1

\* C3: once a producer has returned Error the connection is closed, and no
\* handler calls get_data on any producer (so none is started) afterwards.
C3_NoCallAfterError ==
    closed_by.cause = "error" =>
        /\ closed
        /\ \A s \in AnyOutcome : s.gets = <<>>

\* C4: the response given to reply_error is the last one of the connection:
\* when it has been sent the connection is closed, and no response given to
\* reply after the reply_error call is started.
C4_ErrorResponseIsFinal ==
    \A i \in 1..Len(calls) :
        calls[i].kind = "reply_error" =>
            /\ (Pos(i) # 0 /\ current_operation.id # i) => closed
            /\ \A j \in (i + 1)..Len(calls) : calls[j].kind = "reply" => Pos(j) = 0

\* C5: reply_error discards every producer queued and not started (it is
\* not started then or later), gives the error producer Connection: close,
\* and leaves it the only element of the queue when an operation is
\* streaming, or started when the connection is idle.
C5_ReplyErrorQueue ==
    /\ \A s \in ReplyErrorOutcomes :
          LET e == NextId(Cur)
          IN  /\ Len(s.replies) = 1
              /\ s.replies[1].response.id = e
              /\ <<CONNECTION, "close">> \in s.replies[1].response.headers
              /\ \A i \in 1..Len(operations) :
                    /\ operations[i].id \notin Range(s.started)
                    /\ operations[i].id \notin Range(Ids(s.operations))
                    /\ operations[i].id # s.current_operation.id
              /\ IF current_operation # NoOp
                 THEN /\ s.operations = <<s.replies[1].response>>
                      /\ s.started = started
                      /\ s.current_operation = current_operation
                 ELSE /\ Len(s.started) > Len(started)
                      /\ s.started[Len(started) + 1] = e
    /\ \A j \in 1..Len(calls) :
          calls[j].kind = "reply_error" =>
              \A i \in 1..(j - 1) : Pos(i) <= calls[j].nstarted

\* reply_error was called with an operation streaming and one queued; the
\* queued one was dropped and the error producer has been started since.
C5_Witness ==
    \E j \in 1..Len(calls) :
        /\ calls[j].kind = "reply_error"
        /\ calls[j].busy
        /\ \E i \in 1..(j - 1) : Pos(i) = 0
        /\ Pos(j) # 0

\* C6: when every producer started by one pump trigger (a TransmitBufferEmpty
\* event or a reply on an idle connection) reports EndOfData on its first
\* get_data call, the trigger puts the first frame of every queued producer
\* into the transmit buffer, in queue order, and leaves the queue empty and
\* no current operation.
FirstsEnd(s) == \A i \in 1..Len(s.gets) : s.gets[i].n = 1 => s.gets[i].res = EndOfData

Drained(s, queue) ==
    /\ s.operations = <<>>
    /\ s.current_operation = NoOp
    /\ [i \in 1..Len(s.tx) |-> s.tx[i].op] = Ids(queue)
    /\ \A i \in 1..Len(s.tx) : s.tx[i].chunk = 1

C6_Chaining ==
    /\ \A s \in TbeOutcomes :
          LET pumped == \/ current_operation = NoOp
                        \/ s.gets # <<>> /\ s.gets[1].res = EndOfData
          IN  (pumped /\ FirstsEnd(s)) => Drained(s, operations)
    /\ \A place_first \in BOOLEAN : \A s \in ReplyOutcomes(place_first) :
          (current_operation = NoOp /\ FirstsEnd(s)) =>
              Drained(s, IF place_first
                         THEN <<s.replies[1].response>> \o operations
                         ELSE Append(operations, s.replies[1].response))

\* Two producers are queued behind the current one, and one
\* TransmitBufferEmpty event sends both.
C6_Witness ==
    /\ current_operation # NoOp
    /\ Len(operations) >= 2
    /\ \E s \in TbeOutcomes :
          /\ FirstsEnd(s)
          /\ Len(s.tx) = Len(operations)
          /\ s.operations = <<>>
          /\ s.current_operation = NoOp

\* C7: a producer given to reply in HTTP mode while the receive timeout is
\* T > 0 seconds is enqueued with Connection: keep-alive and Keep-Alive:
\* timeout=T (the 405 response too); one given in WebSocket mode is enqueued
\* with the headers it came with.
KeepAliveOf(ms) ==
    CASE ms = 5000  -> "timeout=5"
      [] ms = 30000 -> "timeout=30"
      [] OTHER      -> "timeout=?"

C7_KeepAlive ==
    \A s \in AnyOutcome : \A i \in 1..Len(s.replies) :
        LET r == s.replies[i]
        IN  r.kind = "reply" =>
              /\ (r.mode = "HTTP" /\ r.timeout >= 1000) =>
                    /\ <<CONNECTION, "keep-alive">> \in r.response.headers
                    /\ <<KEEP_ALIVE, KeepAliveOf(r.timeout)>> \in r.response.headers
                    /\ \A h \in r.response.headers :
                          h[1] = KEEP_ALIVE => h[2] = KeepAliveOf(r.timeout)
              /\ r.mode = "Websocket" => r.response.headers = r.given.headers

\* With a receive timeout of 30 s a request with an unsupported method gets
\* its 405 response, with both headers.
C7_Witness ==
    /\ timeout = 30000
    /\ current_operation # NoOp
    /\ \E s \in PacketOutcomes : \E i \in 1..Len(s.replies) :
          /\ s.replies[i].response.code = Method_Not_Allowed
          /\ <<KEEP_ALIVE, "timeout=30">> \in s.replies[i].response.headers
          /\ <<CONNECTION, "keep-alive">> \in s.replies[i].response.headers

\* C8: a Ping frame makes exactly one reply, a Pong placed first: in front
\* of the queue when an operation is streaming, started at once otherwise;
\* every producer that was queued when the Ping arrived is started only
\* after the Pong. Any other control opcode but Close changes nothing and
\* reaches no handler.
C8_Ping ==
    /\ \A frame \in Frames : \A s \in WsOutcomes(frame) :
          /\ frame.ws_control_code = OpPing =>
                /\ Len(s.replies) = 1
                /\ s.replies[1].response.ws_op = OpPong
                /\ s.handler = <<>>
                /\ IF current_operation # NoOp
                   THEN /\ s.operations = <<s.replies[1].response>> \o operations
                        /\ s.started = started
                   ELSE /\ Len(s.started) > Len(started)
                        /\ s.started[Len(started) + 1] = NextId(Cur)
          /\ (frame.ws_control_code >= OpClose
                /\ frame.ws_control_code \notin {OpClose, OpPing}) =>
                /\ s.replies = <<>>
                /\ s.calls = calls
                /\ s.operations = operations
                /\ s.current_operation = current_operation
                /\ s.closed = closed
                /\ s.handler = <<>>
    /\ \A j \in 1..Len(calls) :
          calls[j].ws_op = OpPong =>
              \A i \in 1..(j - 1) :
                  Pos(i) > calls[j].nstarted => (Pos(j) # 0 /\ Pos(j) < Pos(i))

\* A Ping arrived while one operation was streaming and another was queued;
\* the Pong was started before the queued one.
C8_Witness ==
    \E j \in 1..Len(calls) :
        /\ calls[j].ws_op = OpPong
        /\ calls[j].busy
        /\ \E i \in 1..(j - 1) :
              /\ Pos(i) > calls[j].nstarted
              /\ Pos(j) # 0
              /\ Pos(j) < Pos(i)

\* C9: once a Close frame has closed the connection, none of the producers
\* made until then is in the queue, and no handler puts a frame of one of
\* them into the transmit buffer.
C9_CloseDiscards ==
    closed_by.cause = "ws_close" =>
        /\ \A i \in 1..Len(operations) : operations[i].id > closed_by.ncalls
        /\ \A s \in AnyOutcome : \A i \in 1..Len(s.tx) : s.tx[i].op > closed_by.ncalls

\* C10: a request with an unsupported method, whose target decodes, gets
\* one 405 response however many packets it spans: the first packet makes
\* one, appended at the back of the queue and without Connection: close,
\* every later packet makes none; no packet of it reaches the Request
\* Context, and the connection is closed only if a producer reports Error.
Unsupported(packet) ==
    /\ ~translate_method(packet.method).res
    /\ IF packet.continuation THEN inflight.res ELSE parse_url(packet.url).res

C10_One405 ==
    \A packet \in AllPackets \cup ContinuationPackets :
        Unsupported(packet) =>
            \A s \in RequestOutcomes(packet) :
                /\ s.handler = <<>>
                /\ N405(s) = IF packet.continuation THEN 0 ELSE 1
                /\ Len(s.replies) = N405(s)
                /\ \A i \in 1..Len(s.replies) :
                      /\ ~s.replies[i].place_first
                      /\ <<CONNECTION, "close">> \notin s.replies[i].response.headers
                      /\ current_operation # NoOp =>
                            s.operations = Append(operations, s.replies[i].response)
                /\ s.closed # closed =>
                      \E i \in 1..Len(s.gets) : s.gets[i].res = Error

\* Some percent-decoding of the target reports failure: that of the query
\* (separate_request_parameters) or that of the path (parse_url).
DecodingFails(url) ==
    LET pos == Find(url, 1, "?")
    IN  \/ pos <= Len(url) /\ ~Decode(SubSeq(url, pos, Len(url))).ok
        \/ ~parse_url(url).res

\* The packet is dropped: no Request Context call, no response, queue and
\* current operation as they were, nothing sent, connection not closed.
Dropped(s) ==
    /\ s.handler = <<>>
    /\ s.replies = <<>>
    /\ s.calls = calls
    /\ s.operations = operations
    /\ s.current_operation = current_operation
    /\ s.gets = <<>>
    /\ s.tx = <<>>
    /\ s.closed = closed

\* C11 as stated: a first packet whose target fails percent-decoding, in the
\* path or in the query, is dropped.
C11_AnyDecodingFailure ==
    \A packet \in AllPackets :
        DecodingFails(packet.url) => \A s \in RequestOutcomes(packet) : Dropped(s)

\* C11: a first packet for which parse_url fails (the path, the target up
\* to its first '?', does not percent-decode) is dropped.
C11_MalformedPath ==
    \A packet \in AllPackets :
        ~parse_url(packet.url).res => \A s \in RequestOutcomes(packet) : Dropped(s)

\* A request with a malformed path arrives while one response is streaming
\* and another is queued.
C11_Witness ==
    /\ current_operation # NoOp
    /\ operations # <<>>
    /\ \E packet \in AllPackets :
          /\ ~parse_url(packet.url).res
          /\ RequestOutcomes(packet) # {}

\* The reference splitting of a decoded query: pairs separated by '&', each
\* split at its first '=', later pairs overwriting earlier ones, pairs
\* without '=' left out.
RECURSIVE SplitOn(_, _)
SplitOn(str, c) ==
    LET at == Find(str, 1, c)
    IN  IF at > Len(str) THEN <<str>>
        ELSE <<SubSeq(str, 1, at - 1)>> \o SplitOn(SubSeq(str, at + 1, Len(str)), c)

RECURSIVE AssignPairs(_, _)
AssignPairs(pairs, params) ==
    IF pairs = <<>> THEN params
    ELSE LET pair == Head(pairs)
             eq   == Find(pair, 1, "=")
         IN  IF eq > Len(pair) THEN AssignPairs(Tail(pairs), params)
             ELSE AssignPairs(Tail(pairs),
                              (SubSeq(pair, 1, eq - 1) :> SubSeq(pair, eq + 1, Len(pair)))
                                 @@ params)

ReferenceParameters(query) == AssignPairs(SplitOn(query, "&"), NoParams)

\* C12: for a target with a '?', separate_request_parameters leaves the
\* parameters of the reference splitting of the decoded text after the first
\* '?', and as URL the text before that '?'.
C12_QuerySplitting ==
    LET url == requested_url
        pos == Find(url, 1, "?")
        sep == separate_request_parameters(url)
    IN  pos <= Len(url) =>
          /\ sep.params = ReferenceParameters(Decode(SubSeq(url, pos + 1, Len(url))).out)
          /\ sep.url = SubSeq(url, 1, pos - 1)

\* The producers a handler started, given the state it returned in.
Started(s) == Range(s.started) \ Range(started)

\* The places in the transmit buffer where a handler put frames of producer id.
FramesOf(s, id) == {i \in 1..Len(s.tx) : s.tx[i].op = id}

C14_Reset ==
    LET s == reset_client(Cur)
    IN  /\ s.operations = <<>>
        /\ s.current_operation = NoOp
        /\ s.mode = "HTTP"
        /\ ~s.ws_server

\* reset_client is called in WebSocket mode with the handler attached, one
\* operation streaming and another queued.
C14_Witness ==
    /\ mode = "Websocket"
    /\ ws_server
    /\ current_operation # NoOp
    /\ operations # <<>>
    /\ reset_client(Cur).mode = "HTTP"
    /\ reset_client(Cur).operations = <<>>

\* C15: between handlers (event handlers, reply, reply_error), a non-empty
\* queue comes with a current operation.
C15_NoIdleWithPendingWork ==
    operations # <<>> => current_operation # NoOp

\* A second producer was started from the queue, and the queue still holds
\* another one behind it.
C15_Witness ==
    /\ operations # <<>>
    /\ current_operation # NoOp
    /\ Len(started) >= 2

\* C16: the Request Context, invoked with a continuation packet, receives
\* the URL, headers and parameters that the first packet of the same request
\* established, and that first packet came after the last reset_client.
C16_RequestScopedState ==
    \A packet \in ContinuationPackets : \A s \in RequestOutcomes(packet) :
        \A i \in 1..Len(s.handler) :
            /\ ~inflight.stale
            /\ s.handler[i].url = inflight.url
            /\ s.handler[i].headers = inflight.headers
            /\ s.handler[i].parameters = inflight.params

\* C17: the Request Context is invoked with a continuation packet only if
\* it was invoked with the first packet of the request, that is, only if the
\* target of the first packet was decoded and the method is a supported one.
C17_DroppedStaysDropped ==
    \A packet \in ContinuationPackets : \A s \in RequestOutcomes(packet) :
        s.handler # <<>> =>
            /\ inflight.res
            /\ translate_method(inflight.method).res

\* The get_data calls of a handler whose chunk is to be submitted, and the
\* calls whose chunk the frames it submitted carry.
Chunks(seq) == [i \in 1..Len(seq) |-> <<seq[i].op, seq[i].n>>]

Submitted(s) == [i \in 1..Len(s.tx) |-> <<s.tx[i].op, s.tx[i].chunk>>]

\* C18: whichever handler runs, the frames it submits carry, one for one and
\* in order, the chunks of its get_data calls that did not report Error
\* (the chunk returned together with EndOfData among them).
C18_EveryChunkSubmitted ==
    \A s \in AnyOutcome :
        Submitted(s) = Chunks(SelectSeq(s.gets, LAMBDA g : g.res # Error))

Idle == operations = <<>> /\ current_operation = NoOp

\* C19: with a TransmitBufferEmptyEvent for every frame sent, producers that
\* end and no Error, Close frame, reply_error or reset_client, the send pump
\* does not get stuck: whenever a producer is queued or streaming, the
\* engine later has an empty queue and no current operation, and every
\* producer enqueued has by then been started.
C19_PumpDrains ==
    (~Idle) ~> (Idle /\ Len(started) = Len(calls))

\* Every producer has been started and retired, one of them enqueued while
\* another was streaming, and the transport has nothing left to report.
C19_Witness ==
    /\ Idle
    /\ tx_buffer = 0
    /\ Len(started) = MaxPumped
    /\ \E i \in 1..Len(calls) : calls[i].busy

\* The steps of send_first_part in a handler's outcome: each takes one
\* producer from the queue and makes the first get_data call on it.
Steps(s) == Cardinality({i \in 1..Len(s.gets) : s.gets[i].n = 1})

\* The steps are bounded by the queue the outermost call found, and each
\* took exactly one producer out of it.
Bounded(s, queued) ==
    /\ Steps(s) <= queued
    /\ Len(s.operations) = queued - Steps(s)
    /\ Len(s.started) = Len(started) + Steps(s)

\* C20: every invocation of send_first_part returns, after at most as many
\* steps as there were producers in the queue when the outermost call
\* began (the queue as the event found it, with the producer a reply has
\* just put in, or the one reply_error has left), each step taking exactly
\* one producer out of the queue and none being added on the way.
C20_RecursionBounded ==
    /\ \A s \in TbeOutcomes :
          IF current_operation = NoOp \/ Steps(s) > 0
          THEN Bounded(s, Len(operations))
          ELSE s.operations = operations
    /\ \A place_first \in BOOLEAN : \A s \in ReplyOutcomes(place_first) :
          IF current_operation = NoOp
          THEN Bounded(s, Len(operations) + 1)
          ELSE Steps(s) = 0
    /\ \A s \in ReplyErrorOutcomes :
          IF current_operation = NoOp THEN Bounded(s, 1) ELSE Steps(s) = 0
    /\ \A s \in PacketOutcomes \cup FrameOutcomes :
          Steps(s) <= Len(operations) + Len(s.replies)

\* A TransmitBufferEmptyEvent on which the streaming producer ends and the
\* recursion goes through the whole queue of two or more producers.
C20_Witness ==
    \E s \in TbeOutcomes :
        /\ current_operation # NoOp
        /\ Len(operations) >= 2
        /\ Steps(s) = Len(operations)
        /\ s.operations = <<>>
====
